---- MODULE Spec2Model ----
(***************************************************************************)
(* Finlumina-Vox-v2: the admission gate of server.js and one call session  *)
(* (ConnectionManager, services/openai_service.js) relaying a Twilio media *)
(* stream to an OpenAI Realtime session.                                    *)
(*                                                                         *)
(* One session is modelled in full (the record mgr: the ConnectionManager  *)
(* fields, the readyState of its two WebSockets, its pending timers and    *)
(* REST requests).  The gate's code touches a session only through its     *)
(* call leg's "close" event, so the other sessions sharing the counter are *)
(* the number bg of their call legs that have not yet emitted "close".     *)
(*                                                                         *)
(* Every handler is one action: Node runs a callback and the microtasks it *)
(* queues to completion before the next event; the only suspension that    *)
(* lets other events in is the REST request awaited in _finalizeGoodbye.   *)
(***************************************************************************)
EXTENDS Integers, Sequences, FiniteSets, TLC

\* MAX_CONCURRENT_CALLS as configured (server.js: default 10).
MAX_CALLS == 2
\* Audio chunks the session counts (both directions together) before the
\* environment stops sending audio.
MaxChunks == 1
\* _finalizeGoodbye invocations before the remote session stops sending
\* turn-completion messages (the grace timer may add one more).
MaxFinalize == 2

VARIABLES
  active,   \* server.js: let active
  bg,       \* call legs of the other accepted sessions, not yet closed
  resp,     \* "503" when the last step was an "upgrade" answered 503
  mgr       \* the observed ConnectionManager

vars == <<active, bg, resp, mgr>>

----------------------------------------------------------------------------
(* JavaScript values *)

Absent == "<undefined>"
Null == "<null>"
Truthy(v) == v \notin {Absent, Null, ""}

\* readyState of a ws WebSocket.  FAILED is readyState CLOSING after an
\* error (socket destroyed: nothing more is received); NONE is no socket.
OPEN == "OPEN"
WsStates == {"NONE", "CONNECTING", OPEN, "CLOSING", "FAILED", "CLOSED"}

StreamSids == {"MZ1", "MZ2"}
CallSids == {"CA1"}
Payloads == {"a1", "a2"}
Reasons == {"done"}
DefaultPhrase == "Thank you for calling Finlumina."

----------------------------------------------------------------------------
(* Messages the session sends *)

\* to the remote session
OaMsg(type, audio, instructions) ==
  [type |-> type, audio |-> audio, instructions |-> instructions]

_makeSessionUpdate == OaMsg("session.update", Absent, <<>>)
_initialConversationItem == OaMsg("conversation.item.create", Absent, <<>>)
_createResponseTrigger == OaMsg("response.create", Absent, <<>>)

\* to the call leg
MediaMsg(streamSid, payload) ==
  [event |-> "media", streamSid |-> streamSid, payload |-> payload]

----------------------------------------------------------------------------
(* The ConnectionManager *)

NoManager ==
  [ twilioWs |-> "NONE", openaiWs |-> "NONE",
    streamSid |-> Null, callSid |-> Null,
    metrics |-> [twilioChunks |-> 0, openaiChunks |-> 0],
    renewTimer |-> FALSE,          \* the interval is armed
    pendingGoodbye |-> FALSE,
    goodbyeAudioHeard |-> FALSE,
    twilioClient |-> FALSE,        \* REST credentials are configured
    graceTimers |-> 0,             \* setTimeout callbacks not yet run
    restPending |-> 0,             \* _finalizeGoodbye calls awaiting REST
    toOpenAI |-> <<>>,             \* sent to the remote session in the last step
    toTwilio |-> <<>>,             \* sent to the call leg in the last step
    sentTo |-> <<>>,               \* the legs of the last step's sends, in order
    tool |-> [name |-> Null,       \* what _extractToolCall returned in the last
              arguments |->        \* step (null, or the call the handler logs)
                [reason |-> Absent, raw |-> Absent]],
    closed |-> FALSE,              \* closeAll has run
    released |-> 0,                \* times server.js freed this session's slot
    endCalls |-> 0,                \* _handleEndCall invocations
    goodbyes |-> 0,                \* goodbye response.create messages sent
    graceScheduled |-> 0,          \* setTimeout calls
    finalizeRuns |-> 0,            \* _finalizeGoodbye invocations
    restCalls |-> 0 ]              \* calls(callSid).update requests issued

\* What was sent "in the last step" starts empty in each handler.
Begin(m) ==
  [m EXCEPT !.toOpenAI = <<>>, !.toTwilio = <<>>, !.sentTo = <<>>,
            !.tool = [name |-> Null,
                      arguments |-> [reason |-> Absent, raw |-> Absent]]]

\* ws send(): on a socket that is not OPEN nothing goes out.
WsSendOpenAI(m, obj) ==
  IF m.openaiWs = OPEN
    THEN [m EXCEPT !.toOpenAI = Append(@, obj), !.sentTo = Append(@, "openai")]
    ELSE m

WsSendTwilio(m, obj) ==
  IF m.twilioWs = OPEN
    THEN [m EXCEPT !.toTwilio = Append(@, obj), !.sentTo = Append(@, "twilio")]
    ELSE m

\* closeAll without the close of the remote socket
closeAll_LeavesOpenAI(m) ==
  [m EXCEPT !.renewTimer = FALSE,
            !.twilioWs = IF @ = OPEN THEN "CLOSING" ELSE @,
            !.closed = TRUE]

\* closeAll without the close of the call leg
closeAll_LeavesTwilio(m) ==
  [m EXCEPT !.renewTimer = FALSE,
            !.openaiWs = IF @ = OPEN THEN "CLOSING" ELSE @,
            !.closed = TRUE]

closeAll(m) ==
  [m EXCEPT !.renewTimer = FALSE,
            !.openaiWs = IF @ = OPEN THEN "CLOSING" ELSE @,
            !.twilioWs = IF @ = OPEN THEN "CLOSING" ELSE @,
            !.closed = TRUE]

sendToOpenAI(m, obj) ==
  IF m.openaiWs # OPEN THEN m ELSE WsSendOpenAI(m, obj)

_finalizeGoodbye(m) ==
  LET n == [m EXCEPT !.finalizeRuns = @ + 1] IN
  IF n.twilioClient /\ Truthy(n.callSid)
    THEN [n EXCEPT !.restCalls = @ + 1, !.restPending = @ + 1]
    ELSE closeAll(n)

\* the continuation of _finalizeGoodbye once the REST request settles
\* (fulfilled or rejected: the catch only logs)
_finalizeGoodbyeResume(m) ==
  closeAll([m EXCEPT !.restPending = @ - 1])

GoodbyeText(reason) ==
  <<"Goodbye. ", IF Truthy(reason) THEN reason ELSE DefaultPhrase>>

\* _handleEndCall without the pendingGoodbye guard
_handleEndCall_NoGuard(m, args) ==
  LET p == [m EXCEPT !.endCalls = @ + 1, !.pendingGoodbye = TRUE]
      reason == IF Truthy(args.reason) THEN args.reason ELSE ""
      q == sendToOpenAI(p, OaMsg("response.create", Absent, GoodbyeText(reason)))
  IN [q EXCEPT !.goodbyes = @ + Len(q.toOpenAI) - Len(p.toOpenAI),
               !.graceTimers = @ + 1,
               !.graceScheduled = @ + 1]

_handleEndCall(m, args) ==
  LET n == [m EXCEPT !.endCalls = @ + 1] IN
  IF n.pendingGoodbye THEN n
  ELSE
    LET p == [n EXCEPT !.pendingGoodbye = TRUE]
        reason == IF Truthy(args.reason) THEN args.reason ELSE ""
        q == sendToOpenAI(p, OaMsg("response.create", Absent, GoodbyeText(reason)))
    IN [q EXCEPT !.goodbyes = @ + Len(q.toOpenAI) - Len(p.toOpenAI),
                 !.graceTimers = @ + 1,
                 !.graceScheduled = @ + 1]

----------------------------------------------------------------------------
(* Messages received from the remote session *)

NoDelta == [kind |-> "absent", v |-> Absent]
StrDelta(p) == [kind |-> "string", v |-> p]
ObjDelta(a) == [kind |-> "object", v |-> a]      \* { audio: a }

\* item.arguments: missing, an object, JSON text of an object, or text
\* JSON.parse rejects
NoArgs == [kind |-> "absent", reason |-> Absent]
ObjArgs(r) == [kind |-> "object", reason |-> r]
TextArgs(r) == [kind |-> "string", reason |-> r]
BadArgs == [kind |-> "badstring", reason |-> Absent]

Item(type, name, arguments) ==
  [type |-> type, name |-> name, arguments |-> arguments]

OaEv(type, delta, chunk, oad, output) ==
  [json |-> TRUE, type |-> type, delta |-> delta, chunk |-> chunk,
   output_audio |-> oad, output |-> output]

OaNonJson ==
  [json |-> FALSE, type |-> Absent, delta |-> NoDelta, chunk |-> Absent,
   output_audio |-> Absent, output |-> <<>>]

EndCallDone(arguments) ==
  OaEv("response.done", NoDelta, Absent, Absent,
       <<Item("function_call", "end_call", arguments)>>)

OpenAIMessages ==
  { OaNonJson,
    OaEv("input_audio_buffer.speech_started", NoDelta, Absent, Absent, <<>>),
    OaEv("input_audio_buffer.speech_started", NoDelta, "a1", Absent, <<>>),
    OaEv("response.output_audio.delta", StrDelta("a1"), Absent, Absent, <<>>),
    OaEv("response.output_audio.delta", NoDelta, Absent, Absent, <<>>),
    OaEv("response.audio.delta", ObjDelta("a2"), Absent, Absent, <<>>),
    OaEv("response.audio.delta", ObjDelta(Absent), Absent, "a1", <<>>),
    OaEv("session.updated", NoDelta, Absent, Absent, <<>>),
    OaEv("session.updated", NoDelta, "a2", Absent, <<>>),
    OaEv("response.output_audio_transcript.delta", StrDelta("a1"), Absent, Absent, <<>>),
    OaEv("response.function_call.arguments.delta", NoDelta, Absent, Absent, <<>>),
    OaEv("response.output_audio.done", NoDelta, Absent, Absent, <<>>),
    OaEv("response.done", NoDelta, Absent, Absent, <<>>),
    OaEv("response.done", NoDelta, Absent, Absent,
         <<Item("message", Absent, NoArgs)>>),
    OaEv("response.done", NoDelta, Absent, Absent,
         <<Item("function_call", "lookup", ObjArgs("done"))>>),
    EndCallDone(ObjArgs("done")),
    EndCallDone(TextArgs("done")),
    EndCallDone(TextArgs(Absent)),
    EndCallDone(BadArgs),
    EndCallDone(NoArgs),
    OaEv("response.done", NoDelta, Absent, Absent,
         <<Item("message", Absent, NoArgs),
           Item("function_call", "end_call", ObjArgs("done")),
           Item("function_call", "end_call", NoArgs)>>),
    OaEv("response.output_audio.done", NoDelta, Absent, Absent,
         <<Item("function_call", "end_call", ObjArgs("done"))>>) }

_extractAudioFromEvent(ev) ==
  IF /\ ev.type \in {"response.output_audio.delta", "response.audio.delta"}
     /\ ev.delta.kind # "absent"
     /\ (ev.delta.kind = "string" \/ Truthy(ev.delta.v))
    THEN ev.delta.v
  ELSE IF Truthy(ev.chunk) THEN ev.chunk
  ELSE IF Truthy(ev.output_audio) THEN ev.output_audio
  ELSE IF ev.delta.kind = "string" THEN ev.delta.v
  ELSE Null

\* the arguments object _extractToolCall builds from item.arguments
ParsedArgs(a) ==
  IF a.kind = "badstring" THEN [reason |-> Absent, raw |-> "<text>"]
  ELSE [reason |-> a.reason, raw |-> Absent]

NoTool == [name |-> Null, arguments |-> [reason |-> Absent, raw |-> Absent]]

IsEndCallItem(item) == item.type = "function_call" /\ item.name = "end_call"

\* _extractToolCall looking for the entry in a message of any type
_extractToolCall_AnyType(ev) ==
  IF ev.type \in {"response.function_call.arguments.delta",
                  "response.function_call.completed"} THEN NoTool
  ELSE IF \E i \in 1..Len(ev.output) : IsEndCallItem(ev.output[i])
    THEN LET i == CHOOSE i \in 1..Len(ev.output) :
                    /\ IsEndCallItem(ev.output[i])
                    /\ \A j \in 1..(i - 1) : ~IsEndCallItem(ev.output[j])
         IN [name |-> "end_call", arguments |-> ParsedArgs(ev.output[i].arguments)]
  ELSE NoTool

_extractToolCall(ev) ==
  IF ev.type \in {"response.function_call.arguments.delta",
                  "response.function_call.completed"} THEN NoTool
  ELSE IF /\ ev.type = "response.done"
          /\ \E i \in 1..Len(ev.output) : IsEndCallItem(ev.output[i])
    THEN LET i == CHOOSE i \in 1..Len(ev.output) :
                    /\ IsEndCallItem(ev.output[i])
                    /\ \A j \in 1..(i - 1) : ~IsEndCallItem(ev.output[j])
         IN [name |-> "end_call", arguments |-> ParsedArgs(ev.output[i].arguments)]
  ELSE NoTool

IsTurnCompletion(ev) == ev.type \in {"response.output_audio.done", "response.done"}

\* step 2 of _handleOpenAIMessage forwarding a re-encoded payload
ForwardAudio_Altered(m, audioBase64, throws) ==
  IF Truthy(audioBase64) /\ Truthy(m.streamSid)
    THEN IF m.twilioWs # OPEN /\ throws THEN m
         ELSE [WsSendTwilio(m, MediaMsg(m.streamSid, "a1"))
                 EXCEPT !.metrics.openaiChunks = @ + 1]
    ELSE m

\* step 2 of _handleOpenAIMessage without the streamSid test
ForwardAudio_NoSidCheck(m, audioBase64, throws) ==
  IF Truthy(audioBase64)
    THEN IF m.twilioWs # OPEN /\ throws THEN m
         ELSE [WsSendTwilio(m, MediaMsg(m.streamSid, audioBase64))
                 EXCEPT !.metrics.openaiChunks = @ + 1]
    ELSE m

\* step 2 of _handleOpenAIMessage; throws: the send on a call leg that is
\* not open throws (the counter is then skipped) instead of being discarded
ForwardAudio(m, audioBase64, throws) ==
  IF Truthy(audioBase64) /\ Truthy(m.streamSid)
    THEN IF m.twilioWs # OPEN /\ throws THEN m
         ELSE [WsSendTwilio(m, MediaMsg(m.streamSid, audioBase64))
                 EXCEPT !.metrics.openaiChunks = @ + 1]
    ELSE m

\* _handleOpenAIMessage with steps 1 and 2 exchanged
_handleOpenAIMessage_ForwardFirst(m0, ev, throws) ==
  IF ~ev.json THEN Begin(m0)
  ELSE
    LET m1 == ForwardAudio(Begin(m0), _extractAudioFromEvent(ev), throws)
        m2 == IF ev.type = "input_audio_buffer.speech_started"
                THEN WsSendOpenAI(m1, OaMsg("response.cancel", Absent, <<>>))
                ELSE m1
        tool == _extractToolCall(ev)
        m3 == IF tool.name = "end_call"
                THEN _handleEndCall([m2 EXCEPT !.tool = tool], tool.arguments)
                ELSE m2
    IN IF m3.pendingGoodbye /\ IsTurnCompletion(ev) THEN _finalizeGoodbye(m3) ELSE m3

_handleOpenAIMessage(m0, ev, throws) ==
  IF ~ev.json THEN Begin(m0)
  ELSE
    LET m1 == IF ev.type = "input_audio_buffer.speech_started"
                THEN WsSendOpenAI(Begin(m0), OaMsg("response.cancel", Absent, <<>>))
                ELSE Begin(m0)
        m2 == ForwardAudio(m1, _extractAudioFromEvent(ev), throws)
        tool == _extractToolCall(ev)
        m3 == IF tool.name = "end_call"
                THEN _handleEndCall([m2 EXCEPT !.tool = tool], tool.arguments)
                ELSE m2
    IN IF m3.pendingGoodbye /\ IsTurnCompletion(ev) THEN _finalizeGoodbye(m3) ELSE m3

----------------------------------------------------------------------------
(* Messages received from the call leg *)

NoStart == [present |-> FALSE, streamSid |-> Absent, sid |-> Absent,
            callSid |-> Absent, call_sid |-> Absent]
Start(streamSid, sid, callSid, call_sid) ==
  [present |-> TRUE, streamSid |-> streamSid, sid |-> sid,
   callSid |-> callSid, call_sid |-> call_sid]

TwEv(event, start, payload) ==
  [json |-> TRUE, event |-> event, start |-> start, payload |-> payload]

TwNonJson == [json |-> FALSE, event |-> Absent, start |-> NoStart, payload |-> Absent]

TwilioMessages ==
  { TwNonJson,
    TwEv("connected", NoStart, Absent),
    TwEv("start", NoStart, Absent),
    TwEv("start", Start("MZ1", Absent, "CA1", Absent), Absent),
    TwEv("start", Start("MZ2", Absent, Absent, Absent), Absent),
    TwEv("start", Start(Absent, "MZ1", Absent, "CA1"), Absent),
    TwEv("start", Start(Absent, Absent, Absent, Absent), Absent),
    TwEv("media", NoStart, "a1"),
    TwEv("media", NoStart, "a2"),
    TwEv("media", NoStart, Absent),
    TwEv("stop", NoStart, Absent),
    TwEv("disconnect", NoStart, Absent) }

\* JavaScript a || b
Or(a, b) == IF Truthy(a) THEN a ELSE b

OnTwilioMessage(m0, ev) ==
  IF ~ev.json THEN Begin(m0)
  ELSE
    LET m1 == IF ev.event = "start" /\ ev.start.present
                THEN [Begin(m0) EXCEPT
                        !.streamSid = Or(ev.start.streamSid, ev.start.sid),
                        !.callSid = Or(ev.start.callSid, Or(ev.start.call_sid, @))]
                ELSE Begin(m0)
        m2 == IF ev.event = "media" /\ Truthy(ev.payload) /\ m1.openaiWs = OPEN
                THEN [WsSendOpenAI(m1, OaMsg("input_audio_buffer.append", ev.payload, <<>>))
                        EXCEPT !.metrics.twilioChunks = @ + 1]
                ELSE m1
    IN IF ev.event \in {"stop", "disconnect"}
         THEN closeAll(
                IF m2.openaiWs = OPEN
                  THEN WsSendOpenAI(
                         WsSendOpenAI(m2, OaMsg("input_audio_buffer.commit", Absent, <<>>)),
                         _createResponseTrigger)
                  ELSE m2)
         ELSE m2

----------------------------------------------------------------------------
(* The remote-session socket's handlers set up by _initOpenAI *)

\* the open handler sending the generation trigger ahead of the configuration
OnOpenAIOpen_TriggerFirst(m) ==
  [WsSendOpenAI(WsSendOpenAI(WsSendOpenAI(Begin(m),
      _createResponseTrigger), _makeSessionUpdate), _initialConversationItem)
    EXCEPT !.renewTimer = TRUE]

OnOpenAIOpen(m) ==
  [WsSendOpenAI(WsSendOpenAI(WsSendOpenAI(Begin(m),
      _makeSessionUpdate), _initialConversationItem), _createResponseTrigger)
    EXCEPT !.renewTimer = TRUE]

OnRenewTimer(m) ==
  IF m.openaiWs = OPEN THEN WsSendOpenAI(Begin(m), _makeSessionUpdate) ELSE Begin(m)

\* new ConnectionManager(twilioWs): the URL passed to new WebSocket is a
\* constant, valid one, so the constructor's catch is never entered
ConnectionManager(twilioClient) ==
  [NoManager EXCEPT !.twilioWs = OPEN, !.openaiWs = "CONNECTING",
                    !.twilioClient = twilioClient]

----------------------------------------------------------------------------
(* server.js: the admission gate *)

\* the capacity test off by one
AtCapacity_OffByOne(a) == a > MAX_CALLS

AtCapacity(a) == a >= MAX_CALLS

\* twilioWs.on("close") of server.js
ReleaseSlot(a) == IF a - 1 > 0 THEN a - 1 ELSE 0

Init ==
  /\ active = 0
  /\ bg = 0
  /\ resp = "none"
  /\ mgr = NoManager

\* "upgrade" on /media at capacity: 503, socket destroyed
UpgradeRejected ==
  /\ AtCapacity(active)
  /\ resp' = "503"
  /\ UNCHANGED <<active, bg, mgr>>

\* "upgrade" on /media below capacity: handleUpgrade completes in the same
\* tick and emits "connection", whose handler counts the session and
\* constructs its ConnectionManager (the observed session)
UpgradeAccepted ==
  /\ ~AtCapacity(active)
  /\ mgr.twilioWs = "NONE"
  /\ \E creds \in BOOLEAN : mgr' = ConnectionManager(creds)
  /\ active' = active + 1
  /\ resp' = "none"
  /\ UNCHANGED bg

\* the same, for a session other than the observed one
UpgradeAcceptedOther ==
  /\ ~AtCapacity(active)
  /\ active' = active + 1
  /\ bg' = bg + 1
  /\ resp' = "none"
  /\ UNCHANGED mgr

\* "upgrade" on any other URL: the socket is destroyed, nothing is written
UpgradeOtherUrl ==
  /\ resp' = "none"
  /\ UNCHANGED <<active, bg, mgr>>

\* "close" of another session's call leg
OtherCallLegClose ==
  /\ bg > 0
  /\ bg' = bg - 1
  /\ active' = ReleaseSlot(active)
  /\ resp' = "none"
  /\ UNCHANGED mgr

----------------------------------------------------------------------------
(* Events of the observed session *)

ChunksCounted == mgr.metrics.twilioChunks + mgr.metrics.openaiChunks

Session(next) ==
  /\ mgr' = next
  /\ resp' = "none"
  /\ UNCHANGED <<active, bg>>

OpenAIOpen ==
  /\ mgr.openaiWs = "CONNECTING"
  /\ Session(OnOpenAIOpen([mgr EXCEPT !.openaiWs = OPEN]))

\* Messages keep arriving on a socket this side has started to close.
OpenAIMessage ==
  /\ mgr.openaiWs \in {OPEN, "CLOSING"}
  /\ \E ev \in OpenAIMessages,
        throws \in IF mgr.twilioWs = OPEN THEN {FALSE} ELSE BOOLEAN :
       /\ Truthy(_extractAudioFromEvent(ev)) => ChunksCounted < MaxChunks
       /\ IsTurnCompletion(ev) => mgr.finalizeRuns < MaxFinalize
       /\ Session(_handleOpenAIMessage(mgr, ev, throws))

OpenAIError ==
  /\ mgr.openaiWs \in {"CONNECTING", OPEN, "CLOSING"}
  /\ Session(closeAll(Begin([mgr EXCEPT !.openaiWs = "FAILED"])))

OpenAIClose ==
  /\ mgr.openaiWs \in {OPEN, "CLOSING", "FAILED"}
  /\ Session(closeAll(Begin([mgr EXCEPT !.openaiWs = "CLOSED"])))

RenewTimer ==
  /\ mgr.renewTimer
  /\ Session(OnRenewTimer(mgr))

\* the setTimeout callback of _handleEndCall
GraceTimer ==
  /\ mgr.graceTimers > 0
  /\ Session(_finalizeGoodbye(Begin([mgr EXCEPT !.graceTimers = @ - 1])))

RestSettled ==
  /\ mgr.restPending > 0
  /\ Session(_finalizeGoodbyeResume(Begin(mgr)))

TwilioMessage ==
  /\ mgr.twilioWs \in {OPEN, "CLOSING"}
  /\ \E ev \in TwilioMessages :
       /\ (ev.event = "media" /\ Truthy(ev.payload)) => ChunksCounted < MaxChunks
       /\ Session(OnTwilioMessage(mgr, ev))

TwilioError ==
  /\ mgr.twilioWs \in {OPEN, "CLOSING"}
  /\ Session(closeAll(Begin([mgr EXCEPT !.twilioWs = "FAILED"])))

\* "close" of the call leg: the ConnectionManager's listener (registered
\* first), then server.js's
TwilioClose ==
  /\ mgr.twilioWs \in {OPEN, "CLOSING", "FAILED"}
  /\ mgr' = [closeAll(Begin([mgr EXCEPT !.twilioWs = "CLOSED"]))
               EXCEPT !.released = @ + 1]
  /\ active' = ReleaseSlot(active)
  /\ resp' = "none"
  /\ UNCHANGED bg

Next ==
  \/ UpgradeRejected
  \/ UpgradeAccepted
  \/ UpgradeAcceptedOther
  \/ UpgradeOtherUrl
  \/ OtherCallLegClose
  \/ OpenAIOpen
  \/ OpenAIMessage
  \/ OpenAIError
  \/ OpenAIClose
  \/ RenewTimer
  \/ GraceTimer
  \/ RestSettled
  \/ TwilioMessage
  \/ TwilioError
  \/ TwilioClose

Spec == Init /\ [][Next]_vars

\* What the runtime guarantees: a due timer runs, a REST request settles,
\* and a socket that is closing (close() called, or failed) emits "close".
FairSpec ==
  /\ Spec
  /\ WF_vars(GraceTimer)
  /\ WF_vars(RestSettled)
  /\ WF_vars(mgr.openaiWs \in {"CLOSING", "FAILED"} /\ OpenAIClose)
  /\ WF_vars(mgr.twilioWs \in {"CLOSING", "FAILED"} /\ TwilioClose)

----------------------------------------------------------------------------
(* Properties *)

BothLegsClosed == mgr.openaiWs = "CLOSED" /\ mgr.twilioWs = "CLOSED"

\* 1 while the observed session's call leg has been accepted and has not
\* emitted "close"
ObservedLive == IF mgr.twilioWs \in {"NONE", "CLOSED"} THEN 0 ELSE 1

\* C1: the live-session counter never exceeds MAX_CALLS; a step that handles
\* a /media connection attempt while the counter is at the maximum (it
\* answers 503, or it would count a session) answers 503 and leaves the
\* counter, the observed session and the other sessions as they were; and 503
\* is answered only at the maximum.
C1_AdmissionBound ==
  /\ [](active <= MAX_CALLS)
  /\ [][(active >= MAX_CALLS /\ (resp' = "503" \/ active' > active))
          => (resp' = "503" /\ active' = active /\ mgr' = mgr /\ bg' = bg)]_vars
  /\ [][resp' = "503" => active >= MAX_CALLS]_vars

C1_Witness == resp = "503" /\ active = MAX_CALLS /\ mgr.twilioWs = OPEN

\* C2: a session in which end_call has initiated the hangup eventually is
\* torn down with both sockets CLOSED, given only that due timers run, REST
\* requests settle and closing sockets emit "close".
C2_DrainingReachesClosed ==
  mgr.pendingGoodbye ~> (mgr.closed /\ BothLegsClosed)

C2_Witness ==
  mgr.pendingGoodbye /\ mgr.closed /\ BothLegsClosed /\ mgr.graceTimers = 0

\* C3 (as claimed): _finalizeGoodbye runs only in a session that was already
\* draining before the step: on the grace timer, or on a turn-completion
\* message received after the goodbye was requested - never in the step that
\* handles the message carrying the tool invocation.
C3_FinalizeOnlyAfterGoodbye ==
  [][mgr'.finalizeRuns # mgr.finalizeRuns => mgr.pendingGoodbye]_vars

\* C4 (as claimed): once two end_call invocations have been handled, exactly
\* one goodbye response.create has been sent and exactly one grace timer
\* scheduled.
C4_ExactlyOneGoodbye ==
  mgr.endCalls >= 2 =>
    (mgr.pendingGoodbye /\ mgr.goodbyes = 1 /\ mgr.graceScheduled = 1)

\* C4 (amended): at most one goodbye response.create is sent - exactly one,
\* carrying "Goodbye. " and the supplied reason or the default phrase, when
\* the remote socket is OPEN at the first invocation, none otherwise - exactly
\* one grace timer is scheduled, and pendingGoodbye is never reset.
C4_HangupIdempotent ==
  /\ [](IF mgr.pendingGoodbye
          THEN mgr.endCalls >= 1 /\ mgr.graceScheduled = 1 /\ mgr.goodbyes <= 1
          ELSE mgr.endCalls = 0 /\ mgr.graceScheduled = 0 /\ mgr.goodbyes = 0)
  /\ [][mgr.pendingGoodbye => mgr'.pendingGoodbye]_vars
  /\ [][(~mgr.pendingGoodbye /\ mgr'.pendingGoodbye) =>
          IF mgr.openaiWs = OPEN
            THEN /\ mgr'.goodbyes = 1
                 /\ \A ev \in OpenAIMessages, throws \in BOOLEAN :
                      (mgr' = _handleOpenAIMessage(mgr, ev, throws)) =>
                        \E i \in 1..Len(mgr'.toOpenAI) :
                          /\ mgr'.toOpenAI[i].type = "response.create"
                          /\ mgr'.toOpenAI[i].instructions =
                               <<"Goodbye. ",
                                 Or(_extractToolCall(ev).arguments.reason, DefaultPhrase)>>
            ELSE mgr'.goodbyes = 0 /\ mgr'.toOpenAI = <<>>]_vars

C4_Witness ==
  mgr.endCalls >= 2 /\ mgr.goodbyes = 1 /\ mgr.graceScheduled = 1

\* C5 (as claimed): once closeAll has run, neither socket is OPEN.
C5_TornDownLegsNotOpen ==
  mgr.closed => (mgr.openaiWs # OPEN /\ mgr.twilioWs # OPEN)

\* C6 (as claimed): the keepalive interval is armed only while the remote
\* socket is OPEN, and never once closeAll has run.
C6_KeepaliveOnlyWhileOpen ==
  /\ mgr.renewTimer => mgr.openaiWs = OPEN
  /\ mgr.closed => ~mgr.renewTimer

\* C7 (as claimed): the REST request completing the call is issued at most
\* once per session.
C7_RestHangupAtMostOnce == mgr.restCalls <= 1

\* C8 (as claimed): once closeAll has run, no grace-timer callback runs: the
\* timer was cancelled.
C8_NoGraceTimerAfterClosed ==
  [][mgr.closed => mgr'.graceTimers >= mgr.graceTimers]_vars

\* C9: the counter is exactly the number of accepted call legs that have not
\* emitted "close" (so every release takes one off and none is clamped), the
\* observed session's slot is released exactly when its call leg closes and
\* never twice, and a session on which closeAll has run - for whichever
\* cause - eventually releases its slot.
C9_SlotReleasedOnce ==
  /\ [](active = bg + ObservedLive /\ active >= 0)
  /\ [](mgr.released = IF mgr.twilioWs = "CLOSED" THEN 1 ELSE 0)
  /\ (mgr.closed ~> mgr.released = 1)

C9_Witness ==
  /\ mgr.released = 1
  /\ mgr.openaiWs \in {"CLOSING", "FAILED", "CLOSED"}
  /\ bg = 1 /\ active = 1

\* C10: every media frame sent to the call leg carries the current streamSid,
\* which is an identifier a start announcement supplied; with no identifier
\* known nothing is sent.
C10_MediaCarriesStreamSid ==
  \A i \in 1..Len(mgr.toTwilio) :
    /\ mgr.toTwilio[i].streamSid = mgr.streamSid
    /\ mgr.streamSid \in StreamSids

C10_Witness ==
  /\ Len(mgr.toTwilio) = 1
  /\ mgr.toTwilio[1].streamSid = "MZ2"
  /\ mgr.metrics.openaiChunks = 1

\* the append-audio-input messages among those sent to the remote session
Appends(sent) == SelectSeq(sent, LAMBDA o : o.type = "input_audio_buffer.append")

Cancels(sent) == SelectSeq(sent, LAMBDA o : o.type = "response.cancel")

\* the speech-started messages the remote session may send
SpeechStarted ==
  {ev \in OpenAIMessages : ev.json /\ ev.type = "input_audio_buffer.speech_started"}

\* C12 as stated: in every state in which a message of the remote session can
\* arrive, handling a speech-started message sends a cancel-generation request
\* to the remote session, ahead of any media frame of the same step.
C12_CancelAlwaysSent ==
  mgr.openaiWs \in {OPEN, "CLOSING"} =>
    \A ev \in SpeechStarted, throws \in BOOLEAN :
      LET next == _handleOpenAIMessage(mgr, ev, throws) IN
        /\ Len(Cancels(next.toOpenAI)) = 1
        /\ next.sentTo[1] = "openai"
        /\ next.toOpenAI[1].type = "response.cancel"

\* C12 amended: handling a speech-started message received while the remote
\* connection is open sends exactly one cancel-generation request, and it is
\* the first thing the step sends, ahead of any media frame for that message;
\* handling one received while the remote connection is no longer open sends
\* no cancel-generation request.
C12_CancelFirstWhenOpen ==
  mgr.openaiWs \in {OPEN, "CLOSING"} =>
    \A ev \in SpeechStarted, throws \in BOOLEAN :
      LET next == _handleOpenAIMessage(mgr, ev, throws) IN
        IF mgr.openaiWs = OPEN
          THEN /\ Len(Cancels(next.toOpenAI)) = 1
               /\ next.sentTo[1] = "openai"
               /\ next.toOpenAI[1].type = "response.cancel"
          ELSE Cancels(next.toOpenAI) = <<>>

C12_Witness ==
  /\ mgr.sentTo = <<"openai", "twilio">>
  /\ mgr.toOpenAI = <<OaMsg("response.cancel", Absent, <<>>)>>
  /\ Len(mgr.toTwilio) = 1

\* the stop and disconnect messages the call leg may send
StopMessages == {ev \in TwilioMessages : ev.json /\ ev.event \in {"stop", "disconnect"}}

\* C13: a stop/disconnect message from the call leg, with no hangup pending and
\* the remote connection open, sends exactly a commit-audio-input then a
\* create-generation request and then closes the remote connection; with a
\* hangup already pending it sends neither.
C13_FinalCommitUnlessDraining ==
  [][mgr.twilioWs \in {OPEN, "CLOSING"} =>
     \A ev \in StopMessages :
       mgr' = OnTwilioMessage(mgr, ev) =>
         /\ (~mgr.pendingGoodbye /\ mgr.openaiWs = OPEN) =>
              /\ mgr'.toOpenAI = <<OaMsg("input_audio_buffer.commit", Absent, <<>>),
                                   _createResponseTrigger>>
              /\ mgr'.openaiWs = "CLOSING"
         /\ mgr.pendingGoodbye => mgr'.toOpenAI = <<>>]_vars

\* C14: nothing is sent to the remote session while its connection has not
\* opened, whatever the call leg delivers meanwhile, and the step in which it
\* opens sends exactly the configuration update, the synthetic opening
\* conversation item and the generation trigger, in that order.
C14_OpeningSequence ==
  [][(mgr' # mgr /\ mgr.openaiWs \in {"NONE", "CONNECTING"}) =>
       mgr'.toOpenAI = IF mgr'.openaiWs = OPEN
                         THEN <<_makeSessionUpdate, _initialConversationItem,
                                _createResponseTrigger>>
                         ELSE <<>>]_vars

C14_Witness ==
  /\ mgr.toOpenAI = <<_makeSessionUpdate, _initialConversationItem,
                      _createResponseTrigger>>
  /\ mgr.renewTimer
  /\ mgr.metrics.twilioChunks = 0
  /\ Truthy(mgr.streamSid)

\* C15: in every step each chunk counter grows by exactly the number of chunks
\* the step delivered in its direction: twilioChunks by the append-audio-input
\* messages sent to the remote session, openaiChunks by the media frames sent
\* to the call leg; a chunk that is dropped counts in neither.
C15_CountersCountForwards ==
  [][mgr' # mgr =>
     /\ mgr'.metrics.twilioChunks - mgr.metrics.twilioChunks
          = Len(Appends(mgr'.toOpenAI))
     /\ mgr'.metrics.openaiChunks - mgr.metrics.openaiChunks
          = Len(mgr'.toTwilio)]_vars

\* the message types the handler looks for
RecognizedTypes ==
  {"input_audio_buffer.speech_started", "response.output_audio.delta",
   "response.audio.delta", "response.output_audio.done", "response.done"}

\* the messages that are unparseable or of none of the recognized types
Unrecognized == {ev \in OpenAIMessages : ~ev.json \/ ev.type \notin RecognizedTypes}

\* C16: a message from the remote session that is unparseable or of no
\* recognized type sends nothing on either leg and leaves the session's flag,
\* counters, identifiers, timers and connection states as they were.
C16_UnrecognizedIgnored ==
  [][mgr.openaiWs \in {OPEN, "CLOSING"} =>
     \A ev \in Unrecognized, throws \in BOOLEAN :
       mgr' = _handleOpenAIMessage(mgr, ev, throws) => mgr' = Begin(mgr)]_vars

\* 1 when the condition holds and 0 otherwise
Count(b) == IF b THEN 1 ELSE 0

\* C17: one message from the remote session triggers at most one of the four
\* actions: cancel-generation, media forward to the call leg, hangup
\* initiation, finalize.
C17_AtMostOneAction ==
  [][(mgr.openaiWs \in {OPEN, "CLOSING"} /\
      \E ev \in OpenAIMessages, throws \in BOOLEAN :
         mgr' = _handleOpenAIMessage(mgr, ev, throws)) =>
       Count(Cancels(mgr'.toOpenAI) # <<>>)
         + Count(mgr'.toTwilio # <<>>)
         + Count(mgr'.pendingGoodbye /\ ~mgr.pendingGoodbye)
         + Count(mgr'.finalizeRuns > mgr.finalizeRuns) <= 1]_vars

\* the goodbye generation request carrying the default closing phrase
DefaultGoodbye == OaMsg("response.create", Absent, <<"Goodbye. ", DefaultPhrase>>)

\* a turn-completion message holding an end_call function-call entry
HasEndCallEntry(ev) ==
  /\ ev.type = "response.done"
  /\ \E i \in 1..Len(ev.output) : IsEndCallItem(ev.output[i])

\* the messages that are not a turn completion with such an entry
WithoutEndCallEntry == {ev \in OpenAIMessages : ~HasEndCallEntry(ev)}

\* C18 as stated: handling a turn-completion message whose end_call entry has
\* arguments that cannot be parsed detects a tool invocation with arguments
\* that have no fields, the hangup proceeds with the default closing phrase,
\* and a tool invocation is detected from no other kind of message.
C18_ParseFailureEmptyArgs ==
  mgr.openaiWs \in {OPEN, "CLOSING"} =>
    /\ \A throws \in BOOLEAN :
         LET next == _handleOpenAIMessage(mgr, EndCallDone(BadArgs), throws) IN
           /\ next.tool = [name |-> "end_call",
                           arguments |-> [reason |-> Absent, raw |-> Absent]]
           /\ next.pendingGoodbye
           /\ (~mgr.pendingGoodbye /\ mgr.openaiWs = OPEN) =>
                next.toOpenAI = <<DefaultGoodbye>>
    /\ \A ev \in WithoutEndCallEntry, throws \in BOOLEAN :
         LET next == _handleOpenAIMessage(mgr, ev, throws) IN
           /\ next.tool.name # "end_call"
           /\ next.endCalls = mgr.endCalls

\* C18 amended: handling such a message detects a tool invocation whose
\* arguments hold the unparsed text under _raw and no reason, the hangup
\* proceeds with the default closing phrase, and a tool invocation is detected
\* from no other kind of message.
C18_ParseFailureKeepsRawText ==
  mgr.openaiWs \in {OPEN, "CLOSING"} =>
    /\ \A throws \in BOOLEAN :
         LET next == _handleOpenAIMessage(mgr, EndCallDone(BadArgs), throws) IN
           /\ next.tool = [name |-> "end_call",
                           arguments |-> [reason |-> Absent, raw |-> "<text>"]]
           /\ next.pendingGoodbye
           /\ (~mgr.pendingGoodbye /\ mgr.openaiWs = OPEN) =>
                next.toOpenAI = <<DefaultGoodbye>>
    /\ \A ev \in WithoutEndCallEntry, throws \in BOOLEAN :
         LET next == _handleOpenAIMessage(mgr, ev, throws) IN
           /\ next.tool.name # "end_call"
           /\ next.endCalls = mgr.endCalls

C18_Witness ==
  /\ mgr.tool = [name |-> "end_call",
                 arguments |-> [reason |-> Absent, raw |-> "<text>"]]
  /\ mgr.toOpenAI = <<DefaultGoodbye>>
  /\ mgr.pendingGoodbye
  /\ mgr.goodbyes = 1

\* C19: once closeAll has run for the session, no later step of the session
\* sends a message on either leg.
C19_ClosedIsQuiescent ==
  [][(mgr' # mgr /\ mgr.closed) =>
       (mgr'.toOpenAI = <<>> /\ mgr'.toTwilio = <<>>)]_vars

====
